---------------------------- MODULE Spec2Model ----------------------------
(***************************************************************************)
(* MemFile (src/src/lib.rs): a shared-memory mapping reached through a     *)
(* link file on disk.                                                      *)
(*                                                                         *)
(* The model follows a fixed number of MemFile handles.  Every handle is   *)
(* produced by one constructor call (create, open, create_raw, open_raw)   *)
(* and is later dropped.  The calls are made by the two processes of the   *)
(* crate's example (lib.rs 6-34), the creator and the slave, each making   *)
(* one call at a time and holding any number of handles.  The calls of     *)
(* the two processes interleave at the granularity of the system calls in  *)
(* lib.rs: Path::is_file, File::create, File::open, read_to_end, write,    *)
(* remove_file, os_impl::create, os_impl::open and the release of the      *)
(* MemMetadata.  A MemFile that was dropped is gone.                       *)
(*                                                                         *)
(* All calls use the one link path LinkPath.  The file system is a single  *)
(* directory entry (link_file) naming an inode, and the contents of the    *)
(* inodes; an open File keeps its inode after the entry is removed.        *)
(*                                                                         *)
(* os_impl (nix.rs / win.rs / macos.rs) is not part of src/: the Os*       *)
(* operators model it from the platform backend contract of spec.md.       *)
(* locking.rs is not part of src/ either: the lock in the header of a      *)
(* mapping and the guards taken on it are modelled from spec.md 4.3.       *)
(*                                                                         *)
(* Option<T> is a sequence of length 0 (None) or 1 (Some(x)).  A String is *)
(* a sequence of code points, a Vec<u8> / &[u8] a sequence of bytes.       *)
(***************************************************************************)
EXTENDS Integers, Sequences, FiniteSets, TLC

\* ------------------------------------------------------------- bounds
NumHandles == 2      \* handles (constructor calls) followed

Handles == 1..NumHandles

\* ------------------------------------------------------------- Option
None == <<>>
Some(x) == <<x>>
IsSome(o) == o # <<>>
Unwrap(o) == o[1]

\* ------------------------------------------------------------- strings
\* String::as_bytes: the UTF-8 encoding of a sequence of code points.
EncodeChar(c) ==
    IF c < 128 THEN <<c>>
    ELSE IF c < 2048 THEN <<192 + (c \div 64), 128 + (c % 64)>>
    ELSE IF c < 65536
         THEN <<224 + (c \div 4096), 128 + ((c \div 64) % 64), 128 + (c % 64)>>
    ELSE <<240 + (c \div 262144), 128 + ((c \div 4096) % 64),
           128 + ((c \div 64) % 64), 128 + (c % 64)>>

RECURSIVE as_bytes(_)
as_bytes(s) == IF s = <<>> THEN <<>> ELSE EncodeChar(Head(s)) \o as_bytes(Tail(s))

IsCont(b) == b >= 128 /\ b < 192

\* Length of the well-formed UTF-8 sequence at the head of bytes, 0 if none.
Utf8Width(b) ==
    LET n == Len(b)
        b1 == b[1]
    IN  IF b1 < 128 THEN 1
        ELSE IF b1 >= 194 /\ b1 < 224
             THEN IF n >= 2 /\ IsCont(b[2]) THEN 2 ELSE 0
        ELSE IF b1 >= 224 /\ b1 < 240
             THEN IF n >= 3 /\ IsCont(b[2]) /\ IsCont(b[3])
                     /\ (b1 = 224 => b[2] >= 160)
                     /\ (b1 = 237 => b[2] < 160)
                  THEN 3 ELSE 0
        ELSE IF b1 >= 240 /\ b1 < 245
             THEN IF n >= 4 /\ IsCont(b[2]) /\ IsCont(b[3]) /\ IsCont(b[4])
                     /\ (b1 = 240 => b[2] >= 144)
                     /\ (b1 = 244 => b[2] < 144)
                  THEN 4 ELSE 0
        ELSE 0

DecodeChar(b, w) ==
    IF w = 1 THEN b[1]
    ELSE IF w = 2 THEN (b[1] - 192) * 64 + (b[2] - 128)
    ELSE IF w = 3 THEN (b[1] - 224) * 4096 + (b[2] - 128) * 64 + (b[3] - 128)
    ELSE (b[1] - 240) * 262144 + (b[2] - 128) * 4096 + (b[3] - 128) * 64
         + (b[4] - 128)

\* String::from_utf8: Some(string) for well-formed UTF-8, None (Utf8Error)
\* otherwise.  The empty byte sequence decodes to the empty string.
RECURSIVE from_utf8(_)
from_utf8(b) ==
    IF b = <<>> THEN Some(<<>>)
    ELSE LET w == Utf8Width(b)
         IN  IF w = 0 THEN None
             ELSE LET rest == from_utf8(SubSeq(b, w + 1, Len(b)))
                  IN  IF IsSome(rest)
                      THEN Some(<<DecodeChar(b, w)>> \o Unwrap(rest))
                      ELSE None

\* The identifiers the backend generates for linked mappings: "/a" and "/é".
IdA == <<47, 97>>
IdB == <<47, 233>>
Ids == {IdA, IdB}
\* The identifiers callers pass to create_raw / open_raw: "/a" and "/".
IdSlash == <<47>>
RawIds == {IdA, IdSlash}
AllIds == Ids \cup RawIds

\* Contents a file found at LinkPath before any call may have: empty, a
\* truncated identifier, bytes that are not UTF-8, a complete identifier.
ForeignContents == {<<>>, <<47>>, <<47, 195>>, <<47, 97>>}

LinkPath == "shared_mem.link"
LockTypes == {"None", "Mutex", "RwLock"}


\* ------------------------------------------------------------- state
VARIABLES
    pc,         \* pc[h]: position of handle h's constructor call / drop
    op,         \* op[h]: the constructor that was called for handle h
    res,        \* res[h]: what the constructor returned ("Pending" until then)
    mem_file,   \* mem_file[h]: Option<MemFile>, the struct of handle h
    cur_link,   \* cur_link[h]: Option<File>, the inode create() holds open
    disk_file,  \* disk_file[h]: Option<File>, the inode open() holds open
    link_file,  \* Option<inode>: the inode the directory entry LinkPath names
    inode,      \* inode[i]: the bytes of inode i
    shm,        \* shm[id]: Option<object>, the named shared memory objects
    os_call,    \* os_call[h]: Option<call>, the call handle h made to os_impl
    released,   \* released[h]: how often handle h's MemMetadata was released
    guard,      \* guard[h]: the lock guard handle h waits for or holds
    region      \* region[r]: lock header and data section of the mapping
                \* that handle r's constructor created

\* The state of the MemFile protocol of lib.rs.
mem_vars == <<pc, op, res, mem_file, cur_link, disk_file, link_file, inode,
              shm, os_call, released>>

vars == <<pc, op, res, mem_file, cur_link, disk_file, link_file, inode,
          shm, os_call, released, guard, region>>

\* Inode 0 is a file some other program left at LinkPath; inode h is the
\* file created by the File::create of handle h's create().
Inodes == 0..NumHandles

\* struct MemFile
MemFile(meta, owner, link_path, real_path, size) ==
    [meta |-> meta, owner |-> owner, link_path |-> link_path,
     real_path |-> real_path, size |-> size]

\* Path::is_file on LinkPath
is_file == IsSome(link_file)

\* The processes that make the calls (lib.rs 6, 20).
Procs == {"creator", "slave"}

\* Handle h is in the middle of a constructor call or of its drop.
Mid(h) == pc[h] \notin {"new", "attached", "done"}

\* Some process is not in the middle of a call.
ProcFree == Cardinality({g \in Handles : Mid(g)}) < Cardinality(Procs)

\* A constructor can be called for handle h.  Handles are numbered in the
\* order in which their constructors are called.
CanStart(h) ==
    /\ pc[h] = "new"
    /\ IF h = 1 THEN TRUE ELSE pc[h - 1] # "new"
    /\ ProcFree

\* The smallest size the backend accepts.
MinSize == 1

\* The sizes callers ask for: too small for the backend, the smallest it
\* accepts, and a larger one.  lib.rs only stores and passes on the size.
Sizes == {MinSize - 1, MinSize, MinSize + 1}

\* A handle that is in no lock call and holds no guard.
NoGuard == [at |-> "idle", cast |-> 0, pos |-> 0]

\* The longest data section (the largest of Sizes).
DataLen == MinSize + 1

\* A mapping nobody has locked or written: the lock header with its
\* exclusive and shared holder counts and the queue of waiting handles, and
\* the bytes of the data section.
FreshRegion ==
    [excl |-> 0, shared |-> 0, queue |-> <<>>, data |-> [i \in 1..DataLen |-> 0]]

Init ==
    /\ pc = [h \in Handles |-> "new"]
    /\ op = [h \in Handles |-> "none"]
    /\ res = [h \in Handles |-> "Pending"]
    /\ mem_file = [h \in Handles |-> None]
    /\ cur_link = [h \in Handles |-> None]
    /\ disk_file = [h \in Handles |-> None]
    /\ \/ /\ link_file = None
          /\ inode = [i \in Inodes |-> <<>>]
       \/ /\ link_file = Some(0)
          /\ \E c \in ForeignContents :
                inode = [i \in Inodes |-> IF i = 0 THEN c ELSE <<>>]
    /\ shm = [id \in AllIds |-> None]
    /\ os_call = [h \in Handles |-> None]
    /\ released = [h \in Handles |-> 0]
    /\ guard = [h \in Handles |-> NoGuard]
    /\ region = [r \in Handles |-> FreshRegion]

\* ------------------------------------------------------------- os_impl
\* os_impl::create: the identifiers the backend may resolve the new object
\* to; empty when it fails.  A linked MemFile gets a generated identifier
\* that names no live object, a raw one the identifier the caller supplied,
\* which must name no live object.
OsCreateIds(mf) ==
    IF mf.size < MinSize THEN {}
    ELSE IF IsSome(mf.link_path) THEN {id \in Ids : shm[id] = None}
    ELSE {id \in {Unwrap(mf.real_path)} : id \in AllIds /\ shm[id] = None}

\* os_impl::create succeeding with identifier id for handle h.  The
\* MemMetadata holds the mapping (named after the handle that created it)
\* and the kind of the lock in its header.
OsCreated(h, mf, lock, id) ==
    /\ shm' = [shm EXCEPT ![id] = Some([size |-> mf.size, lock |-> lock,
                                         creator |-> h])]
    /\ mem_file' = [mem_file EXCEPT ![h] =
            Some([mf EXCEPT !.meta = Some([ident |-> id, map |-> h,
                                           lock |-> lock]),
                            !.real_path = Some(id)])]

\* os_impl::open: attaches iff a live object has exactly the identifier.
OsCanOpen(mf) ==
    /\ IsSome(mf.real_path)
    /\ Unwrap(mf.real_path) \in AllIds
    /\ IsSome(shm[Unwrap(mf.real_path)])

\* os_impl::open succeeding: size and lock kind come from the object.
OsOpened(h, mf) ==
    LET obj == Unwrap(shm[Unwrap(mf.real_path)])
    IN  mem_file' = [mem_file EXCEPT ![h] =
            Some([mf EXCEPT !.meta = Some([ident |-> Unwrap(mf.real_path),
                                           map |-> obj.creator,
                                           lock |-> obj.lock]),
                            !.size = obj.size])]

\* Drop of MemMetadata: unmaps; the owner also destroys the named object.
OsRelease(meta, owner) ==
    IF owner THEN shm' = [shm EXCEPT ![meta.ident] = None]
    ELSE UNCHANGED shm


\* ------------------------------------------------------------- helpers
Set(f, h, v) == [f EXCEPT ![h] = v]

\* An inode that no directory entry and no open File refers to is gone:
\* ino with the contents of those inodes dropped.
Reclaim(ino, lf, cl, df) ==
    [i \in Inodes |->
        IF lf = Some(i) \/ (\E h \in Handles : cl[h] = Some(i) \/ df[h] = Some(i))
        THEN ino[i] ELSE <<>>]

\* A write of data at offset 0 of a file holding old.
WriteAt(old, data) == data \o SubSeq(old, Len(data) + 1, Len(old))

\* The constructor of handle h returns r without a MemFile ever being built.
ReturnErr(h, r) ==
    /\ pc' = Set(pc, h, "done")
    /\ res' = Set(res, h, r)

\* lib.rs 241-249: drop() of mf makes no system call: it is not an owner
\* with a link path, so is_file() is not reached, and it has no metadata.
DropIsSilent(mf) == ~(mf.owner /\ IsSome(mf.link_path)) /\ ~IsSome(mf.meta)

\* The constructor of handle h fails with r while it owns the MemFile mf:
\* mf is dropped before the error reaches the caller.  A drop that makes
\* no system call is over with this step.
FailAndDrop(h, r, mf) ==
    /\ pc' = Set(pc, h, IF DropIsSilent(mf) THEN "done" ELSE "drop")
    /\ mem_file' = Set(mem_file, h, IF DropIsSilent(mf) THEN None ELSE Some(mf))
    /\ res' = Set(res, h, r)

\* ------------------------------------------------------------- create
\* Mutant: the existence check left out.
CreateExists_Unchecked == FALSE

\* lib.rs 107: the existence check of create().
CreateExists == is_file

\* lib.rs 113-119: the MemFile create() builds.
CreateStruct(size) == MemFile(None, TRUE, Some(LinkPath), None, size)

\* lib.rs 104-109: create() is called; the link must not exist yet.  The
\* arguments lock_type and size are drawn where create() first reads them.
Create(h) ==
    /\ CanStart(h)
    /\ op' = Set(op, h, "create")
    /\ IF CreateExists
       THEN ReturnErr(h, "AlreadyExists")
       ELSE /\ pc' = Set(pc, h, "c_file")
            /\ UNCHANGED res
    /\ UNCHANGED <<mem_file, cur_link, disk_file, link_file, inode, shm,
                   os_call, released>>
    /\ UNCHANGED <<guard, region>>

\* lib.rs 110-119: File::create(&new_link_path)?, which creates the file or
\* truncates the one that is there, then the MemFile is built.
CreateFile(h, size) ==
    /\ pc[h] = "c_file"
    /\ \/ /\ ReturnErr(h, "IoFailure")
          /\ UNCHANGED <<mem_file, cur_link, link_file, inode>>
       \/ /\ LET i == IF is_file THEN Unwrap(link_file) ELSE h
             IN  /\ link_file' = Some(i)
                 /\ inode' = Set(inode, i, <<>>)
                 /\ cur_link' = Set(cur_link, h, Some(i))
          /\ mem_file' = Set(mem_file, h, Some(CreateStruct(size)))
          /\ pc' = Set(pc, h, "c_os")
          /\ UNCHANGED res
    /\ UNCHANGED <<op, disk_file, shm, os_call, released>>
    /\ UNCHANGED <<guard, region>>

\* lib.rs 121: os_impl::create(mem_file, lock_type)?
CreateOs(h, lock_type) ==
    /\ pc[h] = "c_os"
    /\ LET mf == Unwrap(mem_file[h])
           lock == lock_type
       IN  /\ os_call' = Set(os_call, h, Some([fn |-> "create",
                                               ident |-> mf.real_path]))
           /\ IF OsCreateIds(mf) = {}
              THEN /\ FailAndDrop(h, "BackendError", mf)
                   /\ UNCHANGED shm
              ELSE /\ \E id \in OsCreateIds(mf) : OsCreated(h, mf, lock, id)
                   /\ pc' = Set(pc, h, "c_write")
                   /\ UNCHANGED res
    /\ UNCHANGED <<op, cur_link, disk_file, link_file, inode, released>>
    /\ UNCHANGED <<guard, region>>

\* lib.rs 126: a write that reports fewer bytes than it was given.
ShortWrite(write_sz, len) == write_sz # len

\* Mutant: a missing identifier is reported as an error value.
MissingIdent_Error == "BackendError"

\* lib.rs 131-133: created_file.real_path is None: panic!().  The panic
\* unwinds create(), which drops created_file and closes cur_link.
MissingIdent == "Panic"

\* lib.rs 123-135: the identifier is written into the link file.  write()
\* fails, or reports the number of bytes (of the prefix) it wrote.  cur_link
\* is closed when create() returns.
CreateWrite(h) ==
    /\ pc[h] = "c_write"
    /\ LET bytes == as_bytes(Unwrap(Unwrap(mem_file[h]).real_path))
           i == Unwrap(cur_link[h])
       IN  IF ~IsSome(Unwrap(mem_file[h]).real_path)
           THEN /\ FailAndDrop(h, MissingIdent, Unwrap(mem_file[h]))
                /\ UNCHANGED <<inode, cur_link>>
           ELSE
           \/ /\ FailAndDrop(h, "IoFailure", Unwrap(mem_file[h]))
              /\ UNCHANGED <<inode, cur_link>>
           \/ \E write_sz \in 0..Len(bytes) :
                LET written == Set(inode, i, WriteAt(inode[i],
                                                 SubSeq(bytes, 1, write_sz)))
                IN  IF ShortWrite(write_sz, Len(bytes))
                    THEN /\ FailAndDrop(h, "PartialWrite", Unwrap(mem_file[h]))
                         /\ inode' = written
                         /\ UNCHANGED cur_link
                    ELSE /\ pc' = Set(pc, h, "attached")
                         /\ res' = Set(res, h, "Ok")
                         /\ cur_link' = Set(cur_link, h, None)
                         /\ inode' = Reclaim(written, link_file, cur_link',
                                             disk_file)
                         /\ UNCHANGED mem_file
    /\ UNCHANGED <<op, disk_file, link_file, shm, os_call, released>>
    /\ UNCHANGED <<guard, region>>

\* A backend that breaks its contract: os_impl::create returns Ok with the
\* object made and mapped but real_path left None.
OsCreatedUnnamed(h, mf, lock, id) ==
    /\ shm' = [shm EXCEPT ![id] = Some([size |-> mf.size, lock |-> lock,
                                         creator |-> h])]
    /\ mem_file' = [mem_file EXCEPT ![h] =
            Some([mf EXCEPT !.meta = Some([ident |-> id, map |-> h,
                                           lock |-> lock])])]

\* lib.rs 121 with the backend that breaks its contract.
CreateOsRogue(h, lock_type) ==
    /\ pc[h] = "c_os"
    /\ LET mf == Unwrap(mem_file[h])
       IN  /\ os_call' = Set(os_call, h, Some([fn |-> "create",
                                               ident |-> mf.real_path]))
           /\ \E id \in OsCreateIds(mf) : OsCreatedUnnamed(h, mf, lock_type, id)
    /\ pc' = Set(pc, h, "c_write")
    /\ UNCHANGED <<op, res, cur_link, disk_file, link_file, inode, released>>
    /\ UNCHANGED <<guard, region>>

\* ------------------------------------------------------------- open
\* Mutant: the existence check left out.
OpenExists_Unchecked == TRUE

\* lib.rs 158: the existence check of open().
OpenExists == is_file

\* Mutant: open() marks its MemFile as the owner.
OpenStruct_Owner == MemFile(None, TRUE, Some(LinkPath), None, 0)

\* lib.rs 162-168: the MemFile open() builds.
OpenStruct == MemFile(None, FALSE, Some(LinkPath), None, 0)

\* lib.rs 155-168: open() is called; the link must exist.
Open(h) ==
    /\ CanStart(h)
    /\ op' = Set(op, h, "open")
    /\ IF ~OpenExists
       THEN /\ ReturnErr(h, "NotFound")
            /\ UNCHANGED mem_file
       ELSE /\ mem_file' = Set(mem_file, h, Some(OpenStruct))
            /\ pc' = Set(pc, h, "o_file")
            /\ UNCHANGED res
    /\ UNCHANGED <<cur_link, disk_file, link_file, inode, shm, os_call,
                   released>>
    /\ UNCHANGED <<guard, region>>

\* Mutant: the link file is opened the way create() opens it, truncated.
OpenFile_Truncating(h) ==
    /\ pc[h] = "o_file"
    /\ is_file
    /\ disk_file' = Set(disk_file, h, link_file)
    /\ inode' = Set(inode, Unwrap(link_file), <<>>)
    /\ pc' = Set(pc, h, "o_read")
    /\ UNCHANGED <<op, res, mem_file, cur_link, link_file, shm, os_call,
                   released>>
    /\ UNCHANGED <<guard, region>>

\* lib.rs 172: File::open(&existing_link_path)?
OpenFile(h) ==
    /\ pc[h] = "o_file"
    /\ IF is_file
       THEN /\ disk_file' = Set(disk_file, h, link_file)
            /\ pc' = Set(pc, h, "o_read")
            /\ UNCHANGED <<res, mem_file>>
       ELSE /\ FailAndDrop(h, "IoFailure", Unwrap(mem_file[h]))
            /\ UNCHANGED disk_file
    /\ UNCHANGED <<op, cur_link, link_file, inode, shm, os_call, released>>
    /\ UNCHANGED <<guard, region>>

\* Mutant: every byte taken for a character.
DecodeLink_Bytewise(file_contents) == Some(file_contents)

\* lib.rs 175: String::from_utf8(file_contents)
DecodeLink(file_contents) == from_utf8(file_contents)

\* lib.rs 173-176: read_to_end()? and String::from_utf8()?; disk_file is
\* closed at the end of the block.
OpenRead(h) ==
    /\ pc[h] = "o_read"
    /\ disk_file' = Set(disk_file, h, None)
    /\ inode' = Reclaim(inode, link_file, cur_link, disk_file')
    /\ \/ FailAndDrop(h, "IoFailure", Unwrap(mem_file[h]))
       \/ LET file_contents == inode[Unwrap(disk_file[h])]
              decoded == DecodeLink(file_contents)
          IN  IF IsSome(decoded)
              THEN /\ mem_file' = Set(mem_file, h,
                         Some([Unwrap(mem_file[h]) EXCEPT !.real_path = decoded]))
                   /\ pc' = Set(pc, h, "o_os")
                   /\ UNCHANGED res
              ELSE FailAndDrop(h, "Utf8Error", Unwrap(mem_file[h]))
    /\ UNCHANGED <<op, cur_link, link_file, shm, os_call, released>>
    /\ UNCHANGED <<guard, region>>

\* lib.rs 179: os_impl::open(mem_file)
OpenOs(h) ==
    /\ pc[h] = "o_os"
    /\ LET mf == Unwrap(mem_file[h])
       IN  /\ os_call' = Set(os_call, h, Some([fn |-> "open",
                                               ident |-> mf.real_path]))
           /\ IF OsCanOpen(mf)
              THEN /\ OsOpened(h, mf)
                   /\ pc' = Set(pc, h, "attached")
                   /\ res' = Set(res, h, "Ok")
              ELSE FailAndDrop(h, "BackendError", mf)
    /\ UNCHANGED <<op, cur_link, disk_file, link_file, inode, shm,
                   released>>
    /\ UNCHANGED <<guard, region>>


\* ------------------------------------------------------------- raw mode
\* Mutant: create_raw() records the link path like create().
CreateRawStruct_Linked(shmem_path, size) ==
    MemFile(None, TRUE, Some(LinkPath), Some(shmem_path), size)

\* lib.rs 189-195: the MemFile create_raw() builds.
CreateRawStruct(shmem_path, size) ==
    MemFile(None, TRUE, None, Some(shmem_path), size)

\* lib.rs 197: the lock type create_raw() asks the backend for.
CreateRawLock == "None"

\* lib.rs 188-198: create_raw(shmem_path, size)
CreateRaw(h, shmem_path, size) ==
    /\ CanStart(h)
    /\ op' = Set(op, h, "create_raw")
    /\ LET mf == CreateRawStruct(shmem_path, size)
       IN  /\ os_call' = Set(os_call, h, Some([fn |-> "create",
                                               ident |-> mf.real_path]))
           /\ IF OsCreateIds(mf) = {}
              THEN /\ FailAndDrop(h, "BackendError", mf)
                   /\ UNCHANGED shm
              ELSE /\ \E id \in OsCreateIds(mf) :
                         OsCreated(h, mf, CreateRawLock, id)
                   /\ pc' = Set(pc, h, "attached")
                   /\ res' = Set(res, h, "Ok")
    /\ UNCHANGED <<cur_link, disk_file, link_file, inode, released>>
    /\ UNCHANGED <<guard, region>>

\* Mutant: open_raw() marks its MemFile as the owner.
OpenRawStruct_Owner(shmem_path) == MemFile(None, TRUE, None, Some(shmem_path), 0)

\* lib.rs 207-213: the MemFile open_raw() builds.
OpenRawStruct(shmem_path) == MemFile(None, FALSE, None, Some(shmem_path), 0)

\* lib.rs 205-217: open_raw(shmem_path)
OpenRaw(h, shmem_path) ==
    /\ CanStart(h)
    /\ op' = Set(op, h, "open_raw")
    /\ LET mf == OpenRawStruct(shmem_path)
       IN  /\ os_call' = Set(os_call, h, Some([fn |-> "open",
                                               ident |-> mf.real_path]))
           /\ IF OsCanOpen(mf)
              THEN /\ OsOpened(h, mf)
                   /\ pc' = Set(pc, h, "attached")
                   /\ res' = Set(res, h, "Ok")
              ELSE FailAndDrop(h, "BackendError", mf)
    /\ UNCHANGED <<cur_link, disk_file, link_file, inode, shm, released>>
    /\ UNCHANGED <<guard, region>>

\* ------------------------------------------------------------- Drop
\* Mutant: the link is only removed by a MemFile that holds a mapping.
DropWantsRemove_OnlyMapped(mf) ==
    mf.owner /\ IsSome(mf.link_path) /\ is_file /\ IsSome(mf.meta)

\* Mutant: the owner test left out.
DropWantsRemove_AnyHandle(mf) == IsSome(mf.link_path) /\ is_file

\* lib.rs 241-243: does drop() go on to remove the link file?
DropWantsRemove(mf) == mf.owner /\ IsSome(mf.link_path) /\ is_file

\* lib.rs 244: remove_file(file_path), its result ignored: whatever file
\* LinkPath names is unlinked, and nothing happens when there is none.
remove_file ==
    /\ link_file' = None
    /\ inode' = Reclaim(inode, link_file', cur_link, disk_file)

\* Mutant: the metadata is left in the MemFile.
TakeMeta_Left(mf) == mf

\* lib.rs 249: self.meta.take()
TakeMeta(mf) == [mf EXCEPT !.meta = None]

\* How many MemMetadata a Drop of o releases.
Count(o) == IF IsSome(o) THEN 1 ELSE 0

\* lib.rs 248-252: the MemMetadata, if there is one, is taken and dropped,
\* which ends drop(); then the fields of the MemFile are dropped, a
\* MemMetadata still in meta with them, and the MemFile is gone.  A failing
\* create() closes cur_link as it returns.
ReleaseMeta(h) ==
    /\ LET mf == Unwrap(mem_file[h])
           left == TakeMeta(mf)
       IN  /\ IF IsSome(mf.meta)
              THEN OsRelease(Unwrap(mf.meta), mf.owner)
              ELSE UNCHANGED shm
           /\ released' = Set(released, h,
                              released[h] + Count(mf.meta) + Count(left.meta))
    /\ mem_file' = Set(mem_file, h, None)
    /\ pc' = Set(pc, h, "done")
    /\ cur_link' = Set(cur_link, h, None)
    /\ inode' = Reclaim(inode, link_file, cur_link', disk_file)
    /\ UNCHANGED <<op, res, disk_file, link_file, os_call, guard, region>>

\* Handle h is in a lock call or holds a guard.  A guard borrows its
\* MemFile, which therefore cannot be dropped.
Locking(h) == guard[h].at \notin {"idle", "mismatch"}

\* lib.rs 239-243: drop() starts, for a handle its user lets go of or for
\* the MemFile of a failing constructor.  An owner with a link path calls
\* is_file(); any other MemFile goes straight on to its metadata.
DropCheck(h) ==
    /\ pc[h] \in {"attached", "drop"}
    /\ pc[h] = "attached" => (ProcFree /\ ~Locking(h))
    /\ LET mf == Unwrap(mem_file[h])
       IN  IF DropWantsRemove(mf)
           THEN /\ pc' = Set(pc, h, "d_remove")
                /\ UNCHANGED <<op, res, mem_file, cur_link, disk_file,
                               link_file, inode, shm, os_call, released,
                               guard, region>>
           ELSE IF mf.owner /\ IsSome(mf.link_path)
           THEN /\ pc' = Set(pc, h, "d_meta")
                /\ UNCHANGED <<op, res, mem_file, cur_link, disk_file,
                               link_file, inode, shm, os_call, released,
                               guard, region>>
           ELSE ReleaseMeta(h)

\* lib.rs 244: the link file is removed.
DropRemove(h) ==
    /\ pc[h] = "d_remove"
    /\ remove_file
    /\ pc' = Set(pc, h, "d_meta")
    /\ UNCHANGED <<op, res, mem_file, cur_link, disk_file, shm, os_call,
                   released>>
    /\ UNCHANGED <<guard, region>>

\* lib.rs 248-252: the end of the drop() of an owner with a link path.
DropMeta(h) ==
    /\ pc[h] = "d_meta"
    /\ ReleaseMeta(h)

\* ------------------------------------------------------------- views
HasStruct(h) == IsSome(mem_file[h])
Struct(h) == Unwrap(mem_file[h])
HasMeta(h) == HasStruct(h) /\ IsSome(Struct(h).meta)
\* The constructor returned handle h to its caller, who still holds it.
Live(h) == pc[h] = "attached"
\* Handle h took a step.
Moved(h) == pc'[h] # pc[h]

\* ------------------------------------------------------------- lock guards
\* locking.rs is not part of src/: the lock in the header of the mapping and
\* the guards are modelled from spec.md 4.3 and 5.  A handle has one lock
\* call or guard at a time.  The platform lock grants in the order of
\* arrival.

\* size_of::<u8>()
SizeOfU8 == 1

\* size_of::<T>() of the cast types u8, u16 and u32.
CastSizes == {SizeOfU8, 2, 4}

\* Mutant: any type is cast over the data section.
CastFits_Any(tsize, size) == TRUE

\* Acquiring a guard as T requires size_of(T) <= size.
CastFits(tsize, size) == tsize <= size

\* The mapping handle h is attached to, and the kind of the lock in it.
Map(h) == Unwrap(Struct(h).meta).map
LockOf(h) == Unwrap(Struct(h).meta).lock

\* The guard of handle h takes the lock exclusively: a write guard, or any
\* guard under Mutex, which has no separate read path.
Exclusive(h) == guard[h].at \in {"w_wait", "w_guard"} \/ LockOf(h) = "Mutex"

\* Mutant: the lock is granted whoever holds it.
Available_Always(l, exclusive) == TRUE

\* Mutant: a writer does not wait for the readers.
Available_IgnoresReaders(l, exclusive) == l.excl = 0

\* The lock with header l can be taken: exclusively when nobody holds it,
\* shared when nobody holds it exclusively.
Available(l, exclusive) ==
    IF exclusive THEN l.excl = 0 /\ l.shared = 0 ELSE l.excl = 0

\* The lock is taken.
Acquire(l, exclusive) ==
    IF exclusive THEN [l EXCEPT !.excl = @ + 1] ELSE [l EXCEPT !.shared = @ + 1]

\* Mutant: the end of a guard's scope leaves the lock as it is.
Unlock_Leaked(l, exclusive) == l

\* The lock is released, once.
Unlock(l, exclusive) ==
    IF exclusive THEN [l EXCEPT !.excl = @ - 1] ELSE [l EXCEPT !.shared = @ - 1]

\* write_lock::<T>() / read_lock::<T>() is called on a live handle whose
\* mapping has a lock: CastSizeMismatch, or the thread starts to wait for the
\* lock.
LockCall(h, wait, tsize) ==
    /\ Live(h) /\ ~Locking(h)
    /\ LockOf(h) # "None"
    /\ IF CastFits(tsize, Struct(h).size)
       THEN /\ guard' = Set(guard, h, [at |-> wait, cast |-> tsize, pos |-> 0])
            /\ region' = [region EXCEPT ![Map(h)].queue = Append(@, h)]
       ELSE /\ guard' = Set(guard, h, [NoGuard EXCEPT !.at = "mismatch"])
            /\ UNCHANGED region
    /\ UNCHANGED mem_vars

write_lock(h, tsize) == LockCall(h, "w_wait", tsize)

read_lock(h, tsize) == LockCall(h, "r_wait", tsize)

\* The platform lock is granted to the waiting handle h, the first in the
\* queue, and its lock call returns the guard.
Grant(h) ==
    /\ guard[h].at \in {"w_wait", "r_wait"}
    /\ Head(region[Map(h)].queue) = h
    /\ Available(region[Map(h)], Exclusive(h))
    /\ region' = [region EXCEPT ![Map(h)] =
                    [Acquire(@, Exclusive(h)) EXCEPT !.queue = Tail(@)]]
    /\ guard' = [guard EXCEPT ![h].at =
                    IF @ = "w_wait" THEN "w_guard" ELSE "r_guard"]
    /\ UNCHANGED mem_vars

\* The holder of a write guard copies the next byte of its value (its own
\* number in every byte) into the first size_of(T) bytes of the data section.
GuardWrite(h) ==
    /\ guard[h].at = "w_guard"
    /\ guard[h].pos < guard[h].cast
    /\ region' = [region EXCEPT ![Map(h)].data[guard[h].pos + 1] = h]
    /\ guard' = [guard EXCEPT ![h].pos = @ + 1]
    /\ UNCHANGED mem_vars

\* The scope of the guard of handle h ends, before or after its copy.
GuardRelease(h) ==
    /\ guard[h].at \in {"w_guard", "r_guard"}
    /\ guard[h].pos \in {0, guard[h].cast}
    /\ region' = [region EXCEPT ![Map(h)] = Unlock(@, Exclusive(h))]
    /\ guard' = Set(guard, h, NoGuard)
    /\ UNCHANGED mem_vars

LockStep(h) ==
    \/ \E tsize \in CastSizes : write_lock(h, tsize)
    \/ \E tsize \in CastSizes : read_lock(h, tsize)
    \/ Grant(h)
    \/ GuardWrite(h)
    \/ GuardRelease(h)

\* ------------------------------------------------------------- system
Step(h) ==
    \/ Create(h)
    \/ \E size \in Sizes : CreateFile(h, size)
    \/ \E lock_type \in LockTypes : CreateOs(h, lock_type)
    \/ CreateWrite(h)
    \/ Open(h)
    \/ OpenFile(h)
    \/ OpenRead(h)
    \/ OpenOs(h)
    \/ \E shmem_path \in RawIds, size \in Sizes : CreateRaw(h, shmem_path, size)
    \/ \E shmem_path \in RawIds : OpenRaw(h, shmem_path)
    \/ DropCheck(h)
    \/ DropRemove(h)
    \/ DropMeta(h)

Next == \E h \in Handles : Step(h)

Spec == Init /\ [][Next]_vars


\* The calls made one after the other: a constructor call or a drop runs
\* to its end before the next one starts.
NextSeq == \E h \in Handles : (\A g \in Handles \ {h} : ~Mid(g)) /\ Step(h)

SpecSeq == Init /\ [][NextSeq]_vars

\* The constructor calls and drops made one after the other, and the handles
\* they return used to lock the mapping.
NextLock ==
    \E h \in Handles :
        \/ (\A g \in Handles \ {h} : ~Mid(g)) /\ Step(h)
        \/ LockStep(h)

SpecLock == Init /\ [][NextLock]_vars

\* The lock used as in the crate's example (lib.rs 13, 27), where every
\* guard is taken for u8, which fits every mapping.
NextU8 ==
    \E h \in Handles :
        \/ (\A g \in Handles \ {h} : ~Mid(g)) /\ Step(h)
        \/ write_lock(h, SizeOfU8)
        \/ read_lock(h, SizeOfU8)
        \/ Grant(h)
        \/ GuardWrite(h)
        \/ GuardRelease(h)

\* The example's use of the lock, with the platform lock granting whenever
\* it can, every copy under a write guard going on to its end and every
\* guard's scope ending.
SpecLockFair ==
    /\ Init /\ [][NextU8]_vars
    /\ \A h \in Handles :
          /\ WF_vars(Grant(h))
          /\ WF_vars(GuardWrite(h))
          /\ WF_vars(GuardRelease(h))

\* The calls made one after the other, with a backend that may break its
\* contract on create.
NextRogue ==
    \E h \in Handles :
        /\ \A g \in Handles \ {h} : ~Mid(g)
        /\ \/ Step(h)
           \/ \E lock_type \in LockTypes : CreateOsRogue(h, lock_type)

SpecRogue == Init /\ [][NextRogue]_vars

\* ------------------------------------------------------------- claims

\* C1: once a create() has returned an error, the link file it created is
\* not at LinkPath, no shared object it created exists and its MemFile
\* holds no mapping, whichever step failed.
CreateErrorLeavesNothing ==
    \A h \in Handles :
        (op[h] = "create" /\ pc[h] = "done" /\ res[h] # "Ok") =>
            /\ link_file # Some(h)
            /\ \A id \in AllIds : IsSome(shm[id]) => Unwrap(shm[id]).creator # h
            /\ ~HasMeta(h)

\* A create() whose backend call succeeded and whose write came up short
\* has returned its error.
W_CreateErrorLeavesNothing ==
    \E h \in Handles :
        /\ op[h] = "create" /\ pc[h] = "done" /\ res[h] = "PartialWrite"
        /\ IsSome(os_call[h]) /\ released[h] = 1

\* C2: create() on a path that names a file returns AlreadyExists in that
\* very step, without a call to the backend, without a MemFile, and with
\* the file, its bytes and the shared objects untouched.
CreateOnExistingFails ==
    [][\A h \in Handles :
          (pc[h] = "new" /\ op'[h] = "create" /\ is_file) =>
              /\ res'[h] = "AlreadyExists" /\ pc'[h] = "done"
              /\ os_call'[h] = None /\ mem_file'[h] = None
              /\ UNCHANGED <<link_file, inode, shm, cur_link>>]_vars

\* A create() was refused on a file another program left with an identifier
\* in it, and the file is still there with the same bytes.
W_CreateOnExistingFails ==
    \E h \in Handles :
        /\ op[h] = "create" /\ res[h] = "AlreadyExists"
        /\ link_file = Some(0) /\ inode[0] = <<47, 97>>

\* C3 (as claimed): the File::create of a create() call never opens a file
\* that was already there, and no two create() calls on the path hold a
\* handle at the same time.
NeverOverwritesLink ==
    /\ \A h \in Handles : IsSome(cur_link[h]) => cur_link[h] = Some(h)
    /\ Cardinality({h \in Handles : op[h] = "create" /\ Live(h)}) <= 1

\* C4: the drop of a handle returned by create() goes on to remove the link
\* file when LinkPath names a file, and that removal leaves no file at
\* LinkPath; no step of the drop of a handle built by open() changes the
\* directory entry or the bytes of any file.
DropRemovesLinkOnlyForOwner ==
    [][\A h \in Handles :
          /\ (op[h] = "create" /\ Live(h) /\ Moved(h) /\ is_file)
                => pc'[h] = "d_remove"
          /\ (op[h] = "create" /\ pc[h] = "d_remove" /\ Moved(h))
                => link_file' = None
          /\ (op[h] = "open" /\ pc[h] \in {"attached", "drop", "d_remove", "d_meta"}
              /\ Moved(h))
                => (pc'[h] # "d_remove" /\ UNCHANGED <<link_file, inode>>)]_vars

\* An owner was torn down and the link is gone, after a non-owner had been
\* torn down.
W_DropRemovesLinkOnlyForOwner ==
    \E a, b \in Handles :
        /\ op[a] = "create" /\ res[a] = "Ok" /\ pc[a] = "done"
        /\ op[b] = "open" /\ res[b] = "Ok" /\ pc[b] = "done"
        /\ link_file = None

\* C5: when the calls run one after the other and open() returns while a
\* handle returned by create() is live, open() has succeeded (unless
\* reading the link failed) with a non-owner handle that has the creator's
\* size, a usable one, and the creator's identifier.
OpenAgreesWithCreate ==
    [][\A a, b \in Handles :
          (/\ op[a] = "create" /\ Live(a)
           /\ op'[b] = "open" /\ res[b] = "Pending" /\ res'[b] # "Pending") =>
              /\ res'[b] \in {"Ok", "IoFailure"}
              /\ res'[b] = "Ok" =>
                    /\ pc'[b] = "attached"
                    /\ ~Unwrap(mem_file'[b]).owner
                    /\ Unwrap(mem_file'[b]).size = Struct(a).size
                    /\ Unwrap(mem_file'[b]).size >= MinSize
                    /\ Unwrap(mem_file'[b]).real_path = Struct(a).real_path
                    /\ IsSome(Unwrap(mem_file'[b]).meta)]_vars

\* create() with the larger size and a reader-writer lock, the backend
\* choosing the identifier with a two-byte character, and then open(): both
\* handles are live.
W_OpenAgreesWithCreate ==
    \E a, b \in Handles :
        /\ op[a] = "create" /\ Live(a) /\ op[b] = "open" /\ Live(b)
        /\ Struct(a).size = MinSize + 1 /\ Struct(b).size = MinSize + 1
        /\ Struct(a).real_path = Some(IdB) /\ Struct(b).real_path = Some(IdB)
        /\ Unwrap(shm[IdB]).lock = "RwLock"

\* An identifier cut short: a proper prefix of the bytes of an identifier
\* the backend generates (the empty sequence is one).
CutShort(bytes) ==
    \E id \in Ids :
        /\ Len(bytes) < Len(as_bytes(id))
        /\ bytes = SubSeq(as_bytes(id), 1, Len(bytes))

\* C6 (as claimed): open() never hands the backend an identifier read from
\* a link file that was empty or cut short.
OpenRejectsBadLink ==
    \A h \in Handles :
        (op[h] = "open" /\ IsSome(os_call[h])) =>
            ~CutShort(as_bytes(Unwrap(Unwrap(os_call[h]).ident)))

\* C7: open() on a path that names no file returns NotFound in that very
\* step, without a call to the backend, without a MemFile, and without
\* creating a file.
OpenOnMissingFails ==
    [][\A h \in Handles :
          (pc[h] = "new" /\ op'[h] = "open" /\ ~is_file) =>
              /\ res'[h] = "NotFound" /\ pc'[h] = "done"
              /\ os_call'[h] = None /\ mem_file'[h] = None
              /\ UNCHANGED <<link_file, inode, shm, disk_file>>]_vars

\* An open() was refused and there is still no file.
W_OpenOnMissingFails ==
    \E h \in Handles :
        op[h] = "open" /\ res[h] = "NotFound" /\ pc[h] = "done" /\ ~is_file

\* C8: no step of create_raw(), of open_raw() or of the drop of their
\* handles changes the directory entry, the bytes of a file or an open
\* File; their MemFile, while there is one, has no link_path; the object create_raw() makes has
\* lock type None; and open_raw() of the identifier of a live object made
\* by create_raw() attaches, with that identifier.
RawLeavesFilesAlone ==
    [][\A h \in Handles :
          (op'[h] \in {"create_raw", "open_raw"} /\ Moved(h)) =>
              /\ UNCHANGED <<link_file, inode, cur_link, disk_file>>
              /\ IsSome(mem_file'[h]) => Unwrap(mem_file'[h]).link_path = None
              /\ (op'[h] = "create_raw" /\ pc'[h] = "attached") =>
                    LET id == Unwrap(Unwrap(mem_file'[h]).real_path)
                    IN  /\ Unwrap(shm'[id]).creator = h
                        /\ Unwrap(shm'[id]).lock = "None"
              /\ (op'[h] = "open_raw" /\ pc[h] = "new") =>
                    LET id == Unwrap(Unwrap(os_call'[h]).ident)
                    IN  (IsSome(shm[id])
                         /\ op[Unwrap(shm[id]).creator] = "create_raw") =>
                            /\ pc'[h] = "attached"
                            /\ Unwrap(mem_file'[h]).real_path = Some(id)
                            /\ Unwrap(shm[id]).lock = "None"]_vars

\* A raw owner was created, opened and both raw handles were torn down,
\* next to a link file that is still there.
W_RawLeavesFilesAlone ==
    \E a, b \in Handles :
        /\ op[a] = "create_raw" /\ res[a] = "Ok" /\ pc[a] = "done"
        /\ op[b] = "open_raw" /\ res[b] = "Ok" /\ pc[b] = "done"
        /\ link_file = Some(0) /\ inode[0] = <<47, 97>>

\* C9: two handles that hold a mapping and are both owners have different
\* identifiers, and a MemFile is an owner exactly when create() or
\* create_raw() built it.
OneOwnerPerIdentifier ==
    /\ \A a, b \in Handles :
          (a # b /\ HasMeta(a) /\ HasMeta(b)
           /\ Struct(a).owner /\ Struct(b).owner) =>
              Struct(a).real_path # Struct(b).real_path
    /\ \A h \in Handles :
          HasStruct(h) => (Struct(h).owner <=> op[h] \in {"create", "create_raw"})

\* An owner and a non-owner are live on the same identifier.
W_OneOwnerPerIdentifier ==
    \E a, b \in Handles :
        /\ Live(a) /\ Live(b) /\ Struct(a).owner /\ ~Struct(b).owner
        /\ Struct(a).real_path = Struct(b).real_path

\* C10: a handle that was torn down stays torn down and has no MemFile, so
\* no metadata, any more; a MemFile holds its metadata exactly from the
\* success of its backend call to the end of its drop; no handle's mapping
\* is released more than once, and it has been released once when the
\* drop of a handle that held one is over.
HandleLifecycle ==
    /\ [](\A h \in Handles :
            /\ HasMeta(h) <=> (/\ IsSome(os_call[h])
                               /\ res[h] # "BackendError"
                               /\ pc[h] # "done")
            /\ released[h] <= 1
            /\ (pc[h] = "done" /\ IsSome(os_call[h]) /\ res[h] # "BackendError")
                  => released[h] = 1)
    /\ [][\A h \in Handles :
            /\ pc[h] = "done" => (pc'[h] = "done" /\ mem_file'[h] = None
                                  /\ released'[h] = released[h])
            /\ HasMeta(h) => pc'[h] # "new"]_vars

\* A handle that was attached has been torn down: its metadata is gone and
\* its mapping was released once.
W_HandleLifecycle ==
    \E h \in Handles :
        /\ pc[h] = "done" /\ res[h] = "Ok" /\ ~HasMeta(h)
        /\ released[h] = 1

\* C11: the step that ends the teardown of a handle that holds a mapping
\* releases that mapping, whoever owns it; no step of any teardown touches
\* another handle; the teardown of a handle built by open() or open_raw()
\* leaves the link file and every shared object as they are, so that the
\* live handles on its identifier stay attached to an object that is still
\* there; a teardown step that changes the link or a shared object is an
\* owner's, and the end of the teardown of an owner that holds a mapping
\* destroys its object.
TeardownFrame ==
    [][\A h \in Handles :
          (pc[h] \in {"attached", "drop", "d_remove", "d_meta"} /\ Moved(h)) =>
              /\ (pc'[h] = "done" /\ HasMeta(h)) =>
                    /\ released'[h] = released[h] + 1
                    /\ mem_file'[h] = None
              /\ pc'[h] # "done" => UNCHANGED <<mem_file, released, shm>>
              /\ \A g \in Handles \ {h} :
                    /\ pc'[g] = pc[g] /\ mem_file'[g] = mem_file[g]
                    /\ released'[g] = released[g]
              /\ op[h] \in {"open", "open_raw"} =>
                    /\ UNCHANGED <<link_file, inode, shm>>
                    /\ \A g \in Handles \ {h} :
                          (Live(g) /\ Struct(g).real_path = Struct(h).real_path
                           /\ IsSome(shm[Unwrap(Struct(g).real_path)])) =>
                              /\ pc'[g] = "attached" /\ IsSome(Unwrap(mem_file'[g]).meta)
                              /\ IsSome(shm'[Unwrap(Struct(g).real_path)])
              /\ (link_file' # link_file \/ shm' # shm) =>
                    (op[h] \in {"create", "create_raw"} /\ Struct(h).owner)
              /\ (op[h] \in {"create", "create_raw"} /\ HasMeta(h)
                  /\ pc'[h] = "done") =>
                    shm'[Unwrap(Struct(h).meta).ident] = None]_vars

\* A handle built by open() was torn down, its mapping released, while the
\* creator's handle is live: the link file and the shared object are there.
W_TeardownFrame ==
    \E a, b \in Handles :
        /\ op[a] = "create" /\ Live(a)
        /\ op[b] = "open" /\ res[b] = "Ok" /\ pc[b] = "done" /\ released[b] = 1
        /\ IsSome(link_file)
        /\ IsSome(shm[Unwrap(Struct(a).real_path)])


\* C16: the step of create() after a successful backend call panics when
\* the MemFile the backend returned has no identifier, and only then: it does
\* not return an error value, and writes nothing; a MemFile comes back
\* without an identifier from no backend call but one that breaks the
\* contract.
PanicOnMissingIdent ==
    [][\A h \in Handles :
          /\ (pc[h] = "c_write" /\ Moved(h)) =>
                /\ ~IsSome(Struct(h).real_path) =>
                      /\ res'[h] = "Panic" /\ pc'[h] = "drop"
                      /\ UNCHANGED <<link_file, inode>>
                /\ IsSome(Struct(h).real_path) => res'[h] # "Panic"
          /\ (res[h] = "Pending" /\ res'[h] = "Panic") =>
                (pc[h] = "c_write" /\ ~IsSome(Struct(h).real_path))
          /\ (pc[h] = "c_os" /\ pc'[h] = "c_write"
              /\ ~IsSome(Unwrap(mem_file'[h]).real_path)) =>
                /\ \E lock_type \in LockTypes : CreateOsRogue(h, lock_type)
                /\ ~\E lock_type \in LockTypes : CreateOs(h, lock_type)]_vars

\* A create() has panicked and its unwinding is over: the link file it made
\* is gone and so is the object of the backend call.
W_PanicOnMissingIdent ==
    \E h \in Handles :
        /\ op[h] = "create" /\ res[h] = "Panic" /\ pc[h] = "done"
        /\ released[h] = 1 /\ link_file = None

\* C17 (as claimed): the remove_file of an owner's teardown unlinks no file
\* but the one the File::create of its own create() call made.
DropRemovesOwnLinkOnly ==
    [][\A h \in Handles :
          (pc[h] = "d_remove" /\ Moved(h) /\ is_file) =>
              link_file = Some(h)]_vars

\* The bytes of the file LinkPath names.
LinkContent == inode[Unwrap(link_file)]

\* The link file is one a create() call made and holds exactly the
\* identifier of handle h, built by create() and holding its mapping.
LinkNames(h) ==
    /\ op[h] = "create" /\ HasMeta(h)
    /\ IsSome(link_file) /\ link_file # Some(0)
    /\ LinkContent = as_bytes(Unwrap(Struct(h).real_path))

\* C18 (as claimed), with no file left at LinkPath by another program: from
\* the successful return of a create() to the start of its handle's
\* teardown the link file holds the handle's identifier; a link file with
\* bytes in it that no create() call holds open holds the identifier of a
\* handle built by create() that still has its mapping; and an open() called
\* when every create() that succeeded has been torn down, and none is under
\* way, returns NotFound.
LinkNamesLiveOwner ==
    [][/\ \A h \in Handles : (op'[h] = "create" /\ pc'[h] = "attached") => LinkNames(h)'
       /\ (/\ IsSome(link_file') /\ link_file' # Some(0) /\ LinkContent' # <<>>
           /\ \A g \in Handles : cur_link'[g] = None)
             => \E h \in Handles : LinkNames(h)'
       /\ \A b \in Handles :
             (/\ pc[b] = "new" /\ op'[b] = "open"
              /\ \E a \in Handles : op[a] = "create" /\ res[a] = "Ok"
              /\ \A a \in Handles : op[a] = "create" => pc[a] = "done")
                => res'[b] = "NotFound"]_vars

\* C19: no step of an open() call or of the drop of the MemFile it built,
\* whether the call succeeds or fails, changes the directory entry at
\* LinkPath, the bytes of the file it names or any shared object, and that
\* MemFile is never an owner.
OpenLeavesLinkAlone ==
    [][\A h \in Handles :
          (op'[h] = "open" /\ Moved(h)) =>
              /\ link_file' = link_file
              /\ IsSome(link_file) =>
                    inode'[Unwrap(link_file)] = inode[Unwrap(link_file)]
              /\ shm' = shm
              /\ IsSome(mem_file'[h]) => ~Unwrap(mem_file'[h]).owner]_vars

\* An open() of a link that names no live object has failed at the backend
\* and dropped its MemFile; the link file is there with its bytes.
W_OpenLeavesLinkAlone ==
    \E h \in Handles :
        /\ op[h] = "open" /\ res[h] = "BackendError" /\ pc[h] = "done"
        /\ link_file = Some(0) /\ inode[0] = <<47, 97>>

\* The handles that hold a guard on mapping r, and those that hold a write
\* guard.
Holders(r) ==
    {h \in Handles : HasMeta(h) /\ Map(h) = r /\ guard[h].at \in {"w_guard", "r_guard"}}
Writers(r) == {h \in Holders(r) : guard[h].at = "w_guard"}

\* C12: under Mutex at most one guard is outstanding on a mapping at any
\* time; bytes of the data section change only in a step of the holder of a
\* write guard on it; and when the holder of a write guard has copied its
\* value and its scope ends, the bytes its guard covers are the bytes it
\* wrote, which is what the next acquirer finds.
MutexWritesExclusive ==
    [][\A h \in Handles :
          /\ (HasMeta(h)' /\ LockOf(h)' = "Mutex") =>
                Cardinality(Holders(Map(h))') <= 1
          /\ \A r \in Handles :
                region'[r].data # region[r].data =>
                    \E w \in Writers(r) : guard'[w].pos = guard[w].pos + 1
          /\ (HasMeta(h) /\ LockOf(h) = "Mutex" /\ guard[h].at = "w_guard"
              /\ guard'[h].at = "idle" /\ guard[h].pos = guard[h].cast) =>
                \A i \in 1..guard[h].cast : region[Map(h)].data[i] = h]_vars

\* Under Mutex a handle has been granted a write guard after another handle
\* wrote the whole data section under its own and left: the first handle's
\* bytes are there.
W_MutexWritesExclusive ==
    \E a, b \in Handles :
        /\ a # b /\ HasMeta(a) /\ HasMeta(b) /\ Map(a) = Map(b)
        /\ LockOf(a) = "Mutex"
        /\ guard[a].at = "idle" /\ guard[b].at = "w_guard" /\ guard[b].pos = 0
        /\ region[Map(a)].data = [i \in 1..DataLen |-> a]

\* C13: under RwLock a write guard on a mapping is never outstanding
\* together with another guard on it; a write_lock is granted only when no
\* guard is outstanding on the mapping and a read_lock only when no write
\* guard is.
RwLockReadersShareWritersExclude ==
    [][\A h \in Handles :
          /\ (HasMeta(h)' /\ LockOf(h)' = "RwLock" /\ Writers(Map(h))' # {}) =>
                Cardinality(Holders(Map(h))') = 1
          /\ (HasMeta(h) /\ LockOf(h) = "RwLock"
              /\ guard[h].at = "w_wait" /\ guard'[h].at = "w_guard") =>
                Holders(Map(h)) = {}
          /\ (HasMeta(h) /\ LockOf(h) = "RwLock"
              /\ guard[h].at = "r_wait" /\ guard'[h].at = "r_guard") =>
                Writers(Map(h)) = {}]_vars

\* Under RwLock every handle holds a read guard on the same mapping at
\* once.
W_RwLockReadersShareWritersExclude ==
    /\ \A h \in Handles :
          HasMeta(h) /\ LockOf(h) = "RwLock" /\ guard[h].at = "r_guard"
    /\ \A a, b \in Handles : Map(a) = Map(b)
    /\ region[Map(1)].shared = NumHandles

\* C15: a write_lock::<T>() call on a handle fails with CastSizeMismatch
\* when size_of(T) is larger than the handle's size, leaving the lock and its
\* queue as they were, and starts to wait for the lock otherwise; the guard
\* it is granted is for that T, which fits, and the copy under it stays
\* within the first size_of(T) bytes.
CastSizeChecked ==
    [][\A h \in Handles :
          /\ \A tsize \in CastSizes :
                write_lock(h, tsize) =>
                    /\ tsize > Struct(h).size =>
                          /\ guard'[h].at = "mismatch"
                          /\ region' = region
                    /\ tsize <= Struct(h).size =>
                          /\ guard'[h].at = "w_wait" /\ guard'[h].cast = tsize
                          /\ region'[Map(h)].excl = region[Map(h)].excl
          /\ (guard[h].at = "w_wait" /\ guard'[h].at = "w_guard") =>
                /\ guard'[h].cast = guard[h].cast
                /\ guard[h].cast <= Struct(h).size
          /\ (guard[h].at = "w_guard" /\ guard'[h].pos # guard[h].pos) =>
                /\ guard'[h].pos <= guard[h].cast
                /\ \A i \in 1..DataLen :
                      i # guard'[h].pos =>
                          region'[Map(h)].data[i] = region[Map(h)].data[i]
          /\ (guard'[h].at = "mismatch" /\ HasMeta(h)') =>
                /\ h \notin Holders(Map(h))'
                /\ \A i \in 1..Len(region'[Map(h)].queue) :
                      region'[Map(h)].queue[i] # h]_vars

\* One handle's write_lock has failed with CastSizeMismatch while another
\* handle on the same mapping wrote under a guard for a type of exactly
\* the size of the data section.
W_CastSizeChecked ==
    \E a, b \in Handles :
        /\ HasMeta(a) /\ HasMeta(b) /\ Map(a) = Map(b)
        /\ guard[a].at = "mismatch"
        /\ guard[b].at = "w_guard" /\ guard[b].cast = Struct(b).size
        /\ guard[b].pos = guard[b].cast
        /\ region[Map(b)].excl = 1

\* The number of times the lock of mapping r is held.
Held(r) == region[r].excl + region[r].shared

\* C14: the lock of a mapping is held exactly once for each guard that is
\* outstanding on it, the end of a guard's scope releasing it once; and,
\* with the platform lock granting whenever it can and every guard's scope
\* ending, a handle that waits in write_lock or read_lock gets its guard.
GuardReleaseUnblocks ==
    /\ [](\A r \in Handles : Held(r) = Cardinality(Holders(r)))
    /\ [][\A h \in Handles :
            (guard[h].at \in {"w_guard", "r_guard"} /\ guard'[h].at = "idle") =>
                Held(Map(h))' = Held(Map(h)) - 1]_vars
    /\ \A h \in Handles :
          (guard[h].at \in {"w_wait", "r_wait"})
              ~> (guard[h].at \in {"w_guard", "r_guard"})

\* A handle waits for a write guard behind the guard of another handle, and
\* is the next to get the lock.
W_GuardReleaseUnblocks ==
    \E a, b \in Handles :
        /\ a # b /\ HasMeta(a) /\ HasMeta(b) /\ Map(a) = Map(b)
        /\ guard[a].at \in {"w_guard", "r_guard"}
        /\ guard[b].at = "w_wait"
        /\ region[Map(b)].queue = <<b>>

=============================================================================
